---------------------------- MODULE Spec2Model ----------------------------
(***************************************************************************)
(* A model of tender_analyzer.py: the page-by-page text extractor, the     *)
(* regular-expression field parser and the command-line entry point.       *)
(*                                                                         *)
(* Text is a sequence of one-character strings.  An optional value (a      *)
(* Python Optional[str]) is None (the empty tuple) or Some(s), the         *)
(* one-element tuple holding the string s, so that None and the empty      *)
(* string differ.                                                          *)
(***************************************************************************)
EXTENDS Integers, Sequences, FiniteSets, TLC

VARIABLES
    pc,           \* the control point of the run
    entry,        \* what was called: "main", or "parse_tender_text" as the test does
    fitz,         \* whether the import of PyMuPDF succeeded
    pytesseract,  \* whether the import of pytesseract succeeded
    Image,        \* whether the import of PIL.Image succeeded
    dateparser,   \* whether the import of dateutil's parser succeeded
    args,         \* the parsed command line: json, ocr, dpi
    doc,          \* the document at args.path: Some(its pages), None if it cannot be opened
    page_num,     \* extract_text_from_pdf's loop counter
    pages_text,   \* extract_text_from_pdf's list of page texts
    text,         \* the extracted text, the argument of parse_tender_text
    locals,       \* parse_tender_text's locals: the labelled title, the raw date, ...
    parsed,       \* Some(the record parse_tender_text returned), None before
    exc,          \* Some(the message of the exception raised), None if none was
    stdout,       \* the lines printed to standard output
    stderr,       \* the lines printed to the error stream
    status        \* Some(the exit status), None while the process runs

vars == <<pc, entry, fitz, pytesseract, Image, dateparser, args, doc, page_num,
          pages_text, text, locals, parsed, exc, stdout, stderr, status>>

\* ------------------------------------------------------------ characters

None == << >>
Some(s) == << s >>

UpperCase == <<"A", "B", "C", "D", "E", "F", "G", "H", "I", "J", "K", "L", "M",
               "N", "O", "P", "Q", "R", "S", "T", "U", "V", "W", "X", "Y", "Z">>
LowerCase == <<"a", "b", "c", "d", "e", "f", "g", "h", "i", "j", "k", "l", "m",
               "n", "o", "p", "q", "r", "s", "t", "u", "v", "w", "x", "y", "z">>
Digits == {"0", "1", "2", "3", "4", "5", "6", "7", "8", "9"}

UpperSet == {UpperCase[i] : i \in 1..26}
LowerSet == {LowerCase[i] : i \in 1..26}

LowerOf == [c \in UpperSet |-> LowerCase[CHOOSE i \in 1..26 : UpperCase[i] = c]]
UpperOf == [c \in LowerSet |-> UpperCase[CHOOSE i \in 1..26 : LowerCase[i] = c]]

\* str.lower and str.upper, one character
ToLower(c) == IF c \in UpperSet THEN LowerOf[c] ELSE c
ToUpper(c) == IF c \in LowerSet THEN UpperOf[c] ELSE c

\* str.isupper of one character
IsUpper(c) == c \in UpperSet

\* str.isspace, and the regular expression's \s
IsSpace(c) == c \in {" ", "\t", "\n", "\r"}

\* the characters str.splitlines breaks a line at ("\r\n" counts once)
IsLineBreak(c) == c \in {"\n", "\r"}

\* ------------------------------------------------------------ strings

\* the least element of a non-empty set of integers
Least(S) == CHOOSE x \in S : \A y \in S : x <= y

\* str.strip(): without the white space at both ends
Strip(s) ==
    LET inked == {i \in 1..Len(s) : ~IsSpace(s[i])}
    IN  IF inked = {} THEN << >>
        ELSE SubSeq(s, Least(inked), CHOOSE j \in inked : \A i \in inked : i <= j)

\* str.splitlines(): the lines without their line breaks; a line break at
\* the very end opens no further line
RECURSIVE SplitFrom(_, _)
SplitFrom(s, i) ==
    LET breaks == {j \in i..Len(s) : IsLineBreak(s[j])}
    IN  IF breaks = {}
        THEN (IF i > Len(s) THEN << >> ELSE << SubSeq(s, i, Len(s)) >>)
        ELSE LET j == Least(breaks)
                 skip == IF s[j] = "\r" /\ j < Len(s) /\ s[j + 1] = "\n"
                         THEN 2 ELSE 1
             IN  << SubSeq(s, i, j - 1) >> \o SplitFrom(s, j + skip)

SplitLines(s) == SplitFrom(s, 1)

\* "\n".join(parts)
RECURSIVE JoinLines(_)
JoinLines(parts) ==
    IF parts = << >> THEN << >>
    ELSE IF Len(parts) = 1 THEN parts[1]
    ELSE parts[1] \o << "\n" >> \o JoinLines(Tail(parts))

\* the non-blank lines as they are, not stripped
RECURSIVE NonBlankUnstripped(_)
NonBlankUnstripped(ls) ==
    IF ls = << >> THEN << >>
    ELSE (IF Strip(ls[1]) = << >> THEN << >> ELSE << ls[1] >>)
         \o NonBlankUnstripped(Tail(ls))

\* [l.strip() for l in lines if l.strip()]
RECURSIVE StrippedNonBlank(_)
StrippedNonBlank(ls) ==
    IF ls = << >> THEN << >>
    ELSE LET s == Strip(ls[1])
         IN  (IF s = << >> THEN << >> ELSE << s >>) \o StrippedNonBlank(Tail(ls))

\* ------------------------------------------------------------ regular expressions
(***************************************************************************)
(* A pattern is a tree of the nodes below.  Match(re, t, pos) is the       *)
(* sequence of the ways re matches t from position pos, in the order a     *)
(* backtracking matcher tries them (an alternation left to right, a        *)
(* repetition longest first): each is the position after the match and     *)
(* the span <<from, to>> of the capture group, or None.                    *)
(* The flags (?im) are built in: literals and classes ignore case, ^ and $ *)
(* match at line breaks, and . matches everything but "\n".                *)
(***************************************************************************)
Lit(s) == [op |-> "lit", s |-> s]
Cls(S) == [op |-> "cls", set |-> S]
Dot == [op |-> "dot"]
Bol == [op |-> "bol"]
Eol == [op |-> "eol"]
Cat(subs) == [op |-> "cat", subs |-> subs]
Alt(subs) == [op |-> "alt", subs |-> subs]
Grp(arg) == [op |-> "grp", arg |-> arg]
Rep(arg, lo, hi) == [op |-> "rep", arg |-> arg, lo |-> lo, hi |-> hi, inf |-> FALSE]
Star(arg) == [op |-> "rep", arg |-> arg, lo |-> 0, hi |-> 0, inf |-> TRUE]
Plus(arg) == [op |-> "rep", arg |-> arg, lo |-> 1, hi |-> 0, inf |-> TRUE]
Opt(arg) == Rep(arg, 0, 1)

SpaceChars == {" ", "\t", "\n", "\r"}
Ws == Cls(SpaceChars)

LitAt(s, t, pos) ==
    /\ pos + Len(s) - 1 <= Len(t)
    /\ \A k \in 1..Len(s) : ToLower(t[pos + k - 1]) = ToLower(s[k])

InClass(S, c) == c \in S \/ ToLower(c) \in S \/ ToUpper(c) \in S

At(pos) == [e |-> pos, g |-> None]

WithGroup(g, ms) ==
    [k \in 1..Len(ms) |-> [e |-> ms[k].e, g |-> IF ms[k].g # None THEN ms[k].g ELSE g]]

\* parts[lo] \o ... \o parts[hi]
RECURSIVE Flatten(_, _, _)
Flatten(parts, lo, hi) ==
    IF lo > hi THEN << >>
    ELSE IF lo = hi THEN parts[lo]
    ELSE LET mid == (lo + hi) \div 2
         IN  Flatten(parts, lo, mid) \o Flatten(parts, mid + 1, hi)

RECURSIVE Match(_, _, _)
RECURSIVE MatchCat(_, _, _, _)
RECURSIVE MatchAlt(_, _, _, _)
RECURSIVE MatchRep(_, _, _, _)
RECURSIVE ThreadRep(_, _, _, _, _)
RECURSIVE MatchRun(_, _, _)

Match(re, t, pos) ==
    CASE re.op = "lit" -> IF LitAt(re.s, t, pos) THEN << At(pos + Len(re.s)) >> ELSE << >>
      [] re.op = "cls" -> IF pos <= Len(t) /\ InClass(re.set, t[pos])
                          THEN << At(pos + 1) >> ELSE << >>
      [] re.op = "dot" -> IF pos <= Len(t) /\ t[pos] # "\n"
                          THEN << At(pos + 1) >> ELSE << >>
      [] re.op = "bol" -> IF pos = 1 \/ t[pos - 1] = "\n" THEN << At(pos) >> ELSE << >>
      [] re.op = "eol" -> IF pos = Len(t) + 1 \/ t[pos] = "\n" THEN << At(pos) >> ELSE << >>
      [] re.op = "cat" -> MatchCat(re.subs, 1, t, pos)
      [] re.op = "alt" -> MatchAlt(re.subs, 1, t, pos)
      [] re.op = "rep" -> IF re.arg.op \in {"cls", "dot"} THEN MatchRun(re, t, pos)
                          ELSE MatchRep(re, 0, t, pos)
      [] re.op = "grp" -> LET ms == Match(re.arg, t, pos)
                          IN  [k \in 1..Len(ms) |-> [e |-> ms[k].e, g |-> << pos, ms[k].e >>]]

\* a concatenation: each way to match the first part, continued by each way
\* to match the rest
MatchCat(subs, i, t, pos) ==
    IF i > Len(subs) THEN << At(pos) >>
    ELSE LET ms == Match(subs[i], t, pos)
         IN  Flatten([k \in 1..Len(ms) |->
                         WithGroup(ms[k].g, MatchCat(subs, i + 1, t, ms[k].e))],
                     1, Len(ms))

MatchAlt(subs, i, t, pos) ==
    IF i > Len(subs) THEN << >>
    ELSE Match(subs[i], t, pos) \o MatchAlt(subs, i + 1, t, pos)

\* a repetition tries one more round first, and stops when that fails
MatchRep(re, n, t, pos) ==
    LET more == IF re.inf \/ n < re.hi
                THEN ThreadRep(Match(re.arg, t, pos), 1, re, n, t) ELSE << >>
        stop == IF n >= re.lo THEN << At(pos) >> ELSE << >>
    IN  more \o stop

ThreadRep(ms, k, re, n, t) ==
    IF k > Len(ms) THEN << >>
    ELSE MatchRep(re, n + 1, t, ms[k].e) \o ThreadRep(ms, k + 1, re, n, t)

\* the same for a node that matches one character (a class, the dot): the
\* ends of the run of matching characters, longest first
MatchRun(re, t, pos) ==
    LET fits(i) == Match(re.arg, t, i) # << >>
        stop == CHOOSE i \in pos..(Len(t) + 1) :
                    ~fits(i) /\ \A j \in pos..(i - 1) : fits(j)
        run == stop - pos
        most == IF re.inf \/ run <= re.hi THEN run ELSE re.hi
    IN  IF most < re.lo THEN << >>
        ELSE [k \in 1..(most - re.lo + 1) |-> At(pos + most - k + 1)]

\* pattern.search(t): the first way to match at the leftmost position that
\* has one, as <<the match>>, or None
Search(re, t) ==
    LET starts == {pos \in 1..(Len(t) + 1) : Match(re, t, pos) # << >>}
    IN  IF starts = {} THEN None
        ELSE LET pos == Least(starts)
                 m == Match(re, t, pos)[1]
             IN  << [s |-> pos, e |-> m.e, g |-> m.g] >>

\* a separator of one character at most
SepShort == Rep(Cls({":", "-"} \cup SpaceChars), 0, 1)

\* [:\-\s]{0,5}
Sep == Rep(Cls({":", "-"} \cup SpaceChars), 0, 5)

\* (.+)$
RestOfLine == Cat(<< Grp(Plus(Dot)), Eol >>)

\* the title pattern without the optional "Title" after "Tender"
RE_TITLE_TenderOnly ==
    Cat(<< Bol, Star(Ws),
           Alt(<< Lit(<<"T", "e", "n", "d", "e", "r">>),
                  Lit(<<"T", "i", "t", "l", "e">>),
                  Lit(<<"P", "r", "o", "j", "e", "c", "t">>) >>),
           Sep, RestOfLine >>)

\* (?im)^\s*(?:Tender(?:\s+Title)?|Title|Project)[:\-\s]{0,5}(.+)$
RE_TITLE ==
    Cat(<< Bol, Star(Ws),
           Alt(<< Cat(<< Lit(<<"T", "e", "n", "d", "e", "r">>),
                         Opt(Cat(<< Plus(Ws), Lit(<<"T", "i", "t", "l", "e">>) >>)) >>),
                  Lit(<<"T", "i", "t", "l", "e">>),
                  Lit(<<"P", "r", "o", "j", "e", "c", "t">>) >>),
           Sep, RestOfLine >>)

\* (?im)(?:Reference|Ref|Tender\s+No\.?|Tender\s+ID)[:\-\s]{0,5}([A-Z0-9\-_/]+)
RE_REF ==
    Cat(<< Alt(<< Lit(<<"R", "e", "f", "e", "r", "e", "n", "c", "e">>),
                  Lit(<<"R", "e", "f">>),
                  Cat(<< Lit(<<"T", "e", "n", "d", "e", "r">>), Plus(Ws),
                         Lit(<<"N", "o">>), Opt(Lit(<<".">>)) >>),
                  Cat(<< Lit(<<"T", "e", "n", "d", "e", "r">>), Plus(Ws),
                         Lit(<<"I", "D">>) >>) >>),
           Sep,
           Grp(Plus(Cls(UpperSet \cup Digits \cup {"-", "_", "/"}))) >>)

\* (?im)^(?:Issued\s+By|Issuing\s+Organization|Organization|Procurement\s+Entity|Issued\s+To)[:\-\s]{0,5}(.+)$
RE_ORG ==
    Cat(<< Bol,
           Alt(<< Cat(<< Lit(<<"I", "s", "s", "u", "e", "d">>), Plus(Ws),
                         Lit(<<"B", "y">>) >>),
                  Cat(<< Lit(<<"I", "s", "s", "u", "i", "n", "g">>), Plus(Ws),
                         Lit(<<"O", "r", "g", "a", "n", "i", "z", "a", "t", "i", "o", "n">>) >>),
                  Lit(<<"O", "r", "g", "a", "n", "i", "z", "a", "t", "i", "o", "n">>),
                  Cat(<< Lit(<<"P", "r", "o", "c", "u", "r", "e", "m", "e", "n", "t">>), Plus(Ws),
                         Lit(<<"E", "n", "t", "i", "t", "y">>) >>),
                  Cat(<< Lit(<<"I", "s", "s", "u", "e", "d">>), Plus(Ws),
                         Lit(<<"T", "o">>) >>) >>),
           Sep, RestOfLine >>)

\* (?im)(?:Closing\s+Date|Deadline|Bid\s+Submission\s+Deadline|Submission\s+Deadline)[:\-\s]{0,5}(.+)$
RE_DATE ==
    Cat(<< Alt(<< Cat(<< Lit(<<"C", "l", "o", "s", "i", "n", "g">>), Plus(Ws),
                         Lit(<<"D", "a", "t", "e">>) >>),
                  Lit(<<"D", "e", "a", "d", "l", "i", "n", "e">>),
                  Cat(<< Lit(<<"B", "i", "d">>), Plus(Ws),
                         Lit(<<"S", "u", "b", "m", "i", "s", "s", "i", "o", "n">>), Plus(Ws),
                         Lit(<<"D", "e", "a", "d", "l", "i", "n", "e">>) >>),
                  Cat(<< Lit(<<"S", "u", "b", "m", "i", "s", "s", "i", "o", "n">>), Plus(Ws),
                         Lit(<<"D", "e", "a", "d", "l", "i", "n", "e">>) >>) >>),
           Sep, RestOfLine >>)

\* ------------------------------------------------------------ the field parser

\* m.group(1) as it is, not stripped
first_match_unstripped(pattern, t) ==
    LET m == Search(pattern, t)
    IN  IF m = None THEN None
        ELSE Some(SubSeq(t, m[1].g[1], m[1].g[2] - 1))

\* m.group(1).strip(), or None without a match
first_match(pattern, t) ==
    LET m == Search(pattern, t)
    IN  IF m = None THEN None
        ELSE Some(Strip(SubSeq(t, m[1].g[1], m[1].g[2] - 1)))

\* "not x" of an Optional[str]: None and the empty string are false
Falsy(x) == x = None \/ x = Some(<< >>)

\* the loop with "len(s) >= 10"
RECURSIVE FallbackTitleFrom10(_, _)
FallbackTitleFrom10(lines, i) ==
    IF i > Len(lines) THEN None
    ELSE LET s == Strip(lines[i])
         IN  IF s = << >> THEN FallbackTitleFrom10(lines, i + 1)
             ELSE IF Len(s) >= 10 /\ IsUpper(s[1]) THEN Some(s)
             ELSE FallbackTitleFrom10(lines, i + 1)

\* the loop of the secondary heuristic, from line i on
RECURSIVE FallbackTitle(_, _)
FallbackTitle(lines, i) ==
    IF i > Len(lines) THEN None
    ELSE LET s == Strip(lines[i])
         IN  IF s = << >> THEN FallbackTitle(lines, i + 1)
             ELSE IF Len(s) > 10 /\ IsUpper(s[1]) THEN Some(s)
             ELSE FallbackTitle(lines, i + 1)

FullView(t) == JoinLines(StrippedNonBlank(SplitLines(t)))

\* ------------------------------------------------------------ dates

DigitChar == <<"0", "1", "2", "3", "4", "5", "6", "7", "8", "9">>

\* n in decimal, zero-padded to w digits
Padded(n, w) == [k \in 1..w |-> DigitChar[((n \div (10 ^ (w - k))) % 10) + 1]]

\* datetime.isoformat() of a naive timestamp without microseconds:
\* YYYY-MM-DDTHH:MM:SS
IsoFormat(dt) ==
    Padded(dt.year, 4) \o <<"-">> \o Padded(dt.month, 2) \o <<"-">> \o Padded(dt.day, 2)
    \o <<"T">> \o Padded(dt.hour, 2) \o <<":">> \o Padded(dt.minute, 2)
    \o <<":">> \o Padded(dt.second, 2)

\* whether needle occurs in hay (Python's "needle in hay")
Contains(hay, needle) ==
    \E i \in 0..(Len(hay) - Len(needle)) : SubSeq(hay, i + 1, i + Len(needle)) = needle

Midnight(y, m, d) ==
    [year |-> y, month |-> m, day |-> d, hour |-> 0, minute |-> 0, second |-> 0]

LongDate == <<"3", "0", " ", "S", "e", "p", "t", "e", "m", "b", "e", "r", " ", "2", "0", "2", "5">>
ShortDate == <<"2", "0", "2", "5", "-", "0", "9", "-", "3", "0">>

(***************************************************************************)
(* dateparser.parse(date_str, fuzzy=True), the library call of             *)
(* normalize_date: the set of its possible outcomes, Some(timestamp) or    *)
(* None when it raises.  The two date strings of the model parse to        *)
(* 30 September 2025, midnight; a string that holds one of them among      *)
(* other words may parse to it or be refused; a string without a digit     *)
(* holds no date and is refused; of any other string nothing is assumed.   *)
(***************************************************************************)
DateutilParse(s) ==
    LET day == Midnight(2025, 9, 30)
    IN  IF s \in {LongDate, ShortDate} THEN {Some(day)}
        ELSE IF Contains(s, LongDate) \/ Contains(s, ShortDate) THEN {Some(day), None}
        ELSE IF \A i \in 1..Len(s) : s[i] \notin Digits THEN {None}
        ELSE {Some(day), Some(Midnight(2025, 1, 1)), None}

\* normalize_date giving up on a date it cannot parse
normalize_date_strict(date_str, available, outcome) ==
    IF Falsy(date_str) THEN None
    ELSE IF ~available THEN date_str
    ELSE IF outcome = None THEN None
    ELSE Some(IsoFormat(outcome[1]))

\* normalize_date(date_str), given whether dateutil was imported and how
\* its parse ended
normalize_date(date_str, available, outcome) ==
    IF Falsy(date_str) THEN None
    ELSE IF ~available THEN date_str
    ELSE IF outcome = None THEN date_str
    ELSE Some(IsoFormat(outcome[1]))

\* the outcomes of the parse normalize_date attempts; None too when it
\* attempts none
ParseOutcomes(date_str, available) ==
    IF Falsy(date_str) \/ ~available THEN {None} ELSE DateutilParse(date_str[1])

\* the title parse_tender_text settles on
ChooseTitle(labelled, lines) ==
    IF Falsy(labelled) THEN FallbackTitle(lines, 1) ELSE labelled

\* parse_tender_text(text), from the test or from analyze_file
ParseTenderText ==
    /\ pc = "parse"
    /\ LET lines == SplitLines(text)
           full == JoinLines(StrippedNonBlank(lines))
           title == first_match(RE_TITLE, full)
           ref == first_match(RE_REF, full)
           org == first_match(RE_ORG, full)
           date == first_match(RE_DATE, full)
       IN  \E outcome \in ParseOutcomes(date, dateparser) :
              /\ locals' = [title |-> title, date |-> date, dt |-> outcome,
                            scanned |-> Falsy(title)]
              /\ parsed' = Some([title |-> ChooseTitle(title, lines),
                                 reference |-> ref,
                                 organization |-> org,
                                 closing_date |-> normalize_date(date, dateparser, outcome)])
    /\ pc' = IF entry = "main" THEN "print" ELSE "done"
    /\ UNCHANGED <<entry, fitz, pytesseract, Image, dateparser, args, doc, page_num,
                   pages_text, text, exc, stdout, stderr, status>>

\* ------------------------------------------------------------ the text extractor
(***************************************************************************)
(* A page of the document is what the libraries give for it:               *)
(*   native  Some(the text page.get_text("text") returns), None if it      *)
(*           raises;                                                       *)
(*   render  whether page.get_pixmap(dpi=dpi) and Image.frombytes give     *)
(*           an image (they raise otherwise);                              *)
(*   scan    for each resolution, Some(the text                            *)
(*           pytesseract.image_to_string reads from the image rendered     *)
(*           at it), None if it raises.                                    *)
(***************************************************************************)
Dpis == {200, 300}

SetupError == "PyMuPDF (fitz) is required. Install with 'pip install pymupdf'."
OpenError == "cannot open the file"
RenderError == "cannot render the page"
OcrError == "tesseract failed"

\* lines 55-60: the text the loop body starts from
NativeText(page, force_ocr) ==
    IF force_ocr THEN << >>
    ELSE IF page.native = None THEN << >>
    ELSE page.native[1]

\* line 62: whether the page's own text is kept
KeepsNative(t, force_ocr) == t # << >> /\ Strip(t) # << >> /\ ~force_ocr

\* the fallback rendering at the default resolution whatever dpi is
OcrFallbackDefaultDpi(page, dpi, tesseract, pil) ==
    IF tesseract /\ pil
    THEN IF ~page.render THEN [raised |-> Some(RenderError), block |-> << >>]
         ELSE IF page.scan[200] = None THEN [raised |-> Some(OcrError), block |-> << >>]
         ELSE [raised |-> None, block |-> page.scan[200][1]]
    ELSE [raised |-> None, block |-> << >>]

\* lines 67-74: the fallback, as [raised |-> Some(message) or None, block |-> text]
OcrFallback(page, dpi, tesseract, pil) ==
    IF tesseract /\ pil
    THEN IF ~page.render THEN [raised |-> Some(RenderError), block |-> << >>]
         ELSE IF page.scan[dpi] = None THEN [raised |-> Some(OcrError), block |-> << >>]
         ELSE [raised |-> None, block |-> page.scan[dpi][1]]
    ELSE [raised |-> None, block |-> << >>]

\* one round of the loop over the pages
PageOutcome(page, force_ocr, dpi, tesseract, pil) ==
    LET t == NativeText(page, force_ocr)
    IN  IF KeepsNative(t, force_ocr) THEN [raised |-> None, block |-> t]
        ELSE OcrFallback(page, dpi, tesseract, pil)

\* main calls analyze_file, which calls extract_text_from_pdf: the check
\* for PyMuPDF and fitz.open(path)
ExtractOpen ==
    /\ pc = "main"
    /\ IF ~fitz
       THEN /\ exc' = Some(SetupError)
            /\ pc' = "except"
       ELSE IF doc = None
       THEN /\ exc' = Some(OpenError)
            /\ pc' = "except"
       ELSE /\ exc' = exc
            /\ pc' = "page"
    /\ page_num' = 0
    /\ pages_text' = << >>
    /\ UNCHANGED <<entry, fitz, pytesseract, Image, dateparser, args, doc, text,
                   locals, parsed, stdout, stderr, status>>

\* the loop body for page page_num
ExtractPage ==
    /\ pc = "page"
    /\ page_num < Len(doc[1])
    /\ LET out == PageOutcome(doc[1][page_num + 1], args.ocr, args.dpi, pytesseract, Image)
       IN  IF out.raised # None
           THEN /\ exc' = out.raised
                /\ pc' = "except"
                /\ UNCHANGED <<page_num, pages_text>>
           ELSE /\ pages_text' = Append(pages_text, out.block)
                /\ page_num' = page_num + 1
                /\ UNCHANGED <<pc, exc>>
    /\ UNCHANGED <<entry, fitz, pytesseract, Image, dateparser, args, doc, text,
                   locals, parsed, stdout, stderr, status>>

\* return "\n".join(pages_text)
ExtractReturn ==
    /\ pc = "page"
    /\ page_num = Len(doc[1])
    /\ text' = JoinLines(pages_text)
    /\ pc' = "parse"
    /\ UNCHANGED <<entry, fitz, pytesseract, Image, dateparser, args, doc, page_num,
                   pages_text, locals, parsed, exc, stdout, stderr, status>>

\* ------------------------------------------------------------ main

Path == "tender.pdf"

\* text[:200]
Snippet(t) == SubSeq(t, 1, IF Len(t) < 200 THEN Len(t) ELSE 200)

\* analyze_file's result
AnalysisResult(record, t) == [path |-> Path, parsed |-> record, text_snippet |-> Snippet(t)]

\* the lines main prints on success
Report(json, record, t) ==
    IF json THEN << <<"json", AnalysisResult(record, t)>> >>
    ELSE << <<"Analyzed: ", Path>>,
            <<"title: ", record.title>>,
            <<"reference: ", record.reference>>,
            <<"organization: ", record.organization>>,
            <<"closing_date: ", record.closing_date>> >>

\* lines 153-158
PrintReport ==
    /\ pc = "print"
    /\ stdout' = stdout \o Report(args.json, parsed[1], text)
    /\ status' = Some(0)
    /\ pc' = "exit"
    /\ UNCHANGED <<entry, fitz, pytesseract, Image, dateparser, args, doc, page_num,
                   pages_text, text, locals, parsed, exc, stderr>>

\* an except clause that reports the error and exits with status 0
HandleExceptionExitZero ==
    /\ pc = "except"
    /\ stderr' = Append(stderr, <<"Error: ", exc[1]>>)
    /\ status' = Some(0)
    /\ pc' = "exit"
    /\ UNCHANGED <<entry, fitz, pytesseract, Image, dateparser, args, doc, page_num,
                   pages_text, text, locals, parsed, exc, stdout>>

\* lines 159-161
HandleException ==
    /\ pc = "except"
    /\ stderr' = Append(stderr, <<"Error: ", exc[1]>>)
    /\ status' = Some(1)
    /\ pc' = "exit"
    /\ UNCHANGED <<entry, fitz, pytesseract, Image, dateparser, args, doc, page_num,
                   pages_text, text, locals, parsed, exc, stdout>>

\* ------------------------------------------------------------ the inputs

\* the most pieces an input text is put together from
MaxFrags == 3

\* every text made of at most MaxFrags pieces of frags
Texts(frags) ==
    UNION {{Flatten(f, 1, n) : f \in [1..n -> frags]} : n \in 0..MaxFrags}

\* pieces of texts with title labels and candidate title lines: a line of 11
\* characters, one of 10, one that starts in lower case
TitleFrags ==
    { <<"T", "e", "n", "d", "e", "r", " ", "T", "i", "t", "l", "e", ":", " ">>,
      <<"B", "r", "i", "d", "g", "e", "w", "o", "r", "k", "s">>,
      <<"B", "r", "i", "d", "g", "e", "w", "o", "r", "k">>,
      <<"n", "e", "w", " ", "r", "o", "a", "d", "w", "a", "y", "s">>,
      <<"P", "r", "o", "j", "e", "c", "t", "\n">>,
      <<"\n">>,
      <<" ", " ", " ", " ", " ">>,
      <<"-">> }

\* pieces of texts with reference labels and reference numbers
RefFrags ==
    { <<"R", "e", "f", "e", "r", "e", "n", "c", "e", ":", " ">>,
      <<"T", "B", "-", "2", "0", "2", "5">>,
      <<"-", "A", "1">>,
      <<"_", "/", "9">>,
      <<"b">>,
      <<"R", "e", "f">>,
      <<" ">>,
      <<"\n">> }

\* pieces of texts with organization labels
OrgFrags ==
    { <<"I", "s", "s", "u", "i", "n", "g", " ", "O", "r", "g", "a", "n", "i", "z", "a", "t", "i", "o", "n", ":", " ">>,
      <<"C", "i", "t", "y", " ", "W", "o", "r", "k", "s">>,
      <<"x", " ">>,
      <<"O", "r", "g", "a", "n", "i", "z", "a", "t", "i", "o", "n", "\n">>,
      <<"i", "s", "s", "u", "e", "d", " ", " ", "t", "o">>,
      <<"\n">>,
      <<" ", " ", " ", " ", " ">>,
      <<"-">> }

\* pieces of texts with date labels and dates
DateFrags ==
    { <<"C", "l", "o", "s", "i", "n", "g", " ", "D", "a", "t", "e", ":", " ">>,
      <<"3", "0", " ", "S", "e", "p", "t", "e", "m", "b", "e", "r", " ", "2", "0", "2", "5">>,
      <<"2", "0", "2", "5", "-", "0", "9", "-", "3", "0">>,
      <<"s", "o", "o", "n">>,
      <<"D", "e", "a", "d", "l", "i", "n", "e">>,
      <<"\n">>,
      <<" ">>,
      <<"-">> }

\* pieces of texts with a label of each of the three pattern fields
FieldFrags ==
    { <<"T", "e", "n", "d", "e", "r", " ", "T", "i", "t", "l", "e", ":", " ">>,
      <<"O", "r", "g", "a", "n", "i", "z", "a", "t", "i", "o", "n", ":", " ">>,
      <<"R", "e", "f", ":", " ">>,
      <<"B", "r", "i", "d", "g", "e", "w", "o", "r", "k", "s">>,
      <<"x">>,
      <<" ", " ", " ", " ", " ">>,
      <<"\n">>,
      <<"-">> }

NoArgs == [json |-> FALSE, ocr |-> FALSE, dpi |-> 200]
NoLocals == [title |-> None, date |-> None, dt |-> None, scanned |-> FALSE]

\* a call of parse_tender_text(t), as the test calls it
CallParse(texts, dateutils) ==
    /\ pc = "parse"
    /\ entry = "parse_tender_text"
    /\ text \in texts
    /\ dateparser \in dateutils
    /\ fitz = FALSE /\ pytesseract = FALSE /\ Image = FALSE
    /\ args = NoArgs
    /\ doc = None
    /\ page_num = 0
    /\ pages_text = << >>
    /\ locals = NoLocals
    /\ parsed = None
    /\ exc = None
    /\ stdout = << >>
    /\ stderr = << >>
    /\ status = None

InitTitle == CallParse(Texts(TitleFrags), {FALSE})
InitRef == CallParse(Texts(RefFrags), {FALSE})
InitOrg == CallParse(Texts(OrgFrags), {FALSE})
InitDate == CallParse(Texts(DateFrags), BOOLEAN)
InitFields == CallParse(Texts(FieldFrags), {FALSE})

NextParse == ParseTenderText

SpecTitle == InitTitle /\ [][NextParse]_vars
SpecRef == InitRef /\ [][NextParse]_vars
SpecOrg == InitOrg /\ [][NextParse]_vars
SpecDate == InitDate /\ [][NextParse]_vars
SpecFields == InitFields /\ [][NextParse]_vars

\* the most pages of a document
MaxPages == 2

SameAt(x) == [d \in Dpis |-> x]

\* a page with a text layer; the scanner misreads its last character
TypedPage ==
    [native |-> Some(<<"R", "e", "f", ":", " ", "A", "1">>), render |-> TRUE,
     scan |-> [d \in Dpis |-> IF d = 200 THEN Some(<<"R", "e", "f", ":", " ", "A", "l">>)
                              ELSE Some(<<"R", "e", "f", ":", " ", "A", "I">>)]]
\* a scanned page: no text layer, and legible at 300 dpi only
ScannedPage ==
    [native |-> Some(<< >>), render |-> TRUE,
     scan |-> [d \in Dpis |-> IF d = 200 THEN Some(<< >>)
                              ELSE Some(<<"T", "i", "t", "l", "e", ":", " ", "D", "a", "m">>)]]
\* a page whose text layer is white space
BlankPage ==
    [native |-> Some(<<" ", "\n">>), render |-> TRUE, scan |-> SameAt(Some(<< >>))]
\* a page whose text layer cannot be read
DamagedPage ==
    [native |-> None, render |-> TRUE, scan |-> SameAt(Some(<<"x">>))]
\* a page that cannot be rendered
UnrenderablePage ==
    [native |-> Some(<< >>), render |-> FALSE, scan |-> SameAt(None)]
\* a page the OCR engine fails on
UnreadablePage ==
    [native |-> Some(<< >>), render |-> TRUE, scan |-> SameAt(None)]

PageKinds == {TypedPage, ScannedPage, BlankPage, DamagedPage, UnrenderablePage,
              UnreadablePage}

\* the documents: None cannot be opened
Docs == {None} \cup {Some(d) : d \in UNION {[1..n -> PageKinds] : n \in 0..MaxPages}}

\* a run of main, after parse_args
Init ==
    /\ pc = "main"
    /\ entry = "main"
    /\ fitz \in BOOLEAN
    /\ pytesseract \in BOOLEAN
    /\ Image \in BOOLEAN
    /\ dateparser \in BOOLEAN
    /\ args \in [json : BOOLEAN, ocr : BOOLEAN, dpi : Dpis]
    /\ doc \in Docs
    /\ page_num = 0
    /\ pages_text = << >>
    /\ text = << >>
    /\ locals = NoLocals
    /\ parsed = None
    /\ exc = None
    /\ stdout = << >>
    /\ stderr = << >>
    /\ status = None

Next ==
    \/ ExtractOpen
    \/ ExtractPage
    \/ ExtractReturn
    \/ ParseTenderText
    \/ PrintReport
    \/ HandleException

Spec == Init /\ [][Next]_vars

\* ------------------------------------------------------------ the claims

Done == parsed # None
Record == parsed[1]
InputLines == SplitLines(text)

\* s without the white space at its start
LStrip(s) ==
    LET inked == {i \in 1..Len(s) : ~IsSpace(s[i])}
    IN  IF inked = {} THEN << >> ELSE SubSeq(s, Least(inked), Len(s))

HasPrefix(s, p) == Len(s) >= Len(p) /\ SubSeq(s, 1, Len(p)) = p

\* what follows the first n characters of s
After(s, n) == SubSeq(s, n + 1, Len(s))

TitleLabel == <<"T", "e", "n", "d", "e", "r", " ", "T", "i", "t", "l", "e", ":", " ">>

\* line i is "Tender Title: X", possibly indented, X not blank
IsTitleLine(i) ==
    /\ HasPrefix(LStrip(InputLines[i]), TitleLabel)
    /\ Strip(After(LStrip(InputLines[i]), Len(TitleLabel))) # << >>

TitleValue(i) == After(LStrip(InputLines[i]), Len(TitleLabel))

\* the line begins, once stripped, with one of the title labels in any case
BeginsWithTitleLabel(l) ==
    \E w \in {<<"t", "e", "n", "d", "e", "r">>, <<"t", "i", "t", "l", "e">>,
              <<"p", "r", "o", "j", "e", "c", "t">>} : LitAt(w, Strip(l), 1)

\* the title line is the first line with a title label, and its value does
\* not begin with a separator character
TitleLineDecides(i) ==
    /\ IsTitleLine(i)
    /\ Strip(TitleValue(i))[1] \notin {":", "-"}
    /\ \A j \in 1..(i - 1) : ~BeginsWithTitleLabel(InputLines[j])

\* C1 as stated: whenever the text holds a line "Tender Title: X", the title
\* is X trimmed, whatever the other lines are.
C1_AnyTitleLine ==
    Done => \A i \in 1..Len(InputLines) :
                IsTitleLine(i) => Record.title = Some(Strip(TitleValue(i)))

\* C1 as amended: a line "Tender Title: X" gives the title X trimmed when no
\* earlier line begins with a title label (Tender, Title, Project, in any
\* case) and X trimmed does not begin with ':' or '-'.
C1_FirstTitleLine ==
    Done => \A i \in 1..Len(InputLines) :
                TitleLineDecides(i) => Record.title = Some(Strip(TitleValue(i)))

\* a deciding title line whose value is padded by more white space than the
\* separator takes, after an earlier line or an indentation
C1_Witness ==
    /\ Done
    /\ \E i \in 1..Len(InputLines) :
          /\ TitleLineDecides(i)
          /\ Len(TitleValue(i)) > Len(Strip(TitleValue(i))) + 3
          /\ Record.title = Some(Strip(TitleValue(i)))

RefLabel == <<"R", "e", "f", "e", "r", "e", "n", "c", "e", ":", " ">>
RefClass == UpperSet \cup Digits \cup {"-", "_", "/"}

\* the longest run of characters of A-Z, 0-9, '-', '_', '/' from position q
RefRun(q) ==
    LET stop == CHOOSE i \in q..(Len(text) + 1) :
                    /\ i = Len(text) + 1 \/ text[i] \notin RefClass
                    /\ \A j \in q..(i - 1) : text[j] \in RefClass
    IN  SubSeq(text, q, stop - 1)

\* "Reference: X" stands at position p, X not empty
IsRefAt(p) ==
    /\ p + Len(RefLabel) - 1 <= Len(text)
    /\ SubSeq(text, p, p + Len(RefLabel) - 1) = RefLabel
    /\ RefRun(p + Len(RefLabel)) # << >>

RefValue(p) == RefRun(p + Len(RefLabel))

\* one of the reference labels, in any case, stands at position q
RefLabelAt(q) == Match(RE_REF.subs[1], text, q) # << >>

\* no reference label stands earlier, X does not begin with '-', and what
\* follows X is not a character of the pattern's class in either case
RefDecides(p) ==
    /\ IsRefAt(p)
    /\ RefValue(p)[1] # "-"
    /\ LET next == p + Len(RefLabel) + Len(RefValue(p))
       IN  next <= Len(text) => ~InClass(RefClass, text[next])
    /\ \A q \in 1..(p - 1) : ~RefLabelAt(q)

\* C2 as stated: whenever the text holds "Reference: X", the reference is X,
\* whatever stands before or after.
C2_AnyReference ==
    Done => \A p \in 1..Len(text) : IsRefAt(p) => Record.reference = Some(RefValue(p))

\* C2 as amended: "Reference: X" gives the reference X when no reference
\* label (Reference, Ref, Tender No, Tender ID, in any case) stands earlier
\* in the text, X does not begin with '-', and X is not followed by a
\* character the class matches when case is ignored.
C2_FirstReference ==
    Done => \A p \in 1..Len(text) : RefDecides(p) => Record.reference = Some(RefValue(p))

\* a deciding reference with text after it
C2_Witness ==
    /\ Done
    /\ \E p \in 1..Len(text) :
          /\ RefDecides(p)
          /\ p + Len(RefLabel) + Len(RefValue(p)) <= Len(text)
          /\ Record.reference = Some(RefValue(p))

OrgLabel == <<"I", "s", "s", "u", "i", "n", "g", " ", "O", "r", "g", "a", "n", "i", "z",
              "a", "t", "i", "o", "n", ":", " ">>

\* "Issuing Organization: X" stands at position k of line i, X not blank
IsOrgAt(i, k) ==
    /\ k + Len(OrgLabel) - 1 <= Len(InputLines[i])
    /\ SubSeq(InputLines[i], k, k + Len(OrgLabel) - 1) = OrgLabel
    /\ Strip(After(InputLines[i], k + Len(OrgLabel) - 1)) # << >>

OrgValue(i, k) == After(InputLines[i], k + Len(OrgLabel) - 1)

\* the stripped non-blank lines before line i, joined, and line i stripped
UpToLine(i) ==
    JoinLines(StrippedNonBlank(SubSeq(InputLines, 1, i - 1)) \o << Strip(InputLines[i]) >>)

\* an organization label, in any case, begins a line before line i
OrgLabelEarlier(i) ==
    LET t == UpToLine(i)
    IN  \E q \in 1..(Len(t) - Len(Strip(InputLines[i]))) :
           Match(Cat(<< Bol, RE_ORG.subs[2] >>), t, q) # << >>

\* the occurrence begins its line, no earlier line begins with an
\* organization label, and X trimmed does not begin with a separator character
OrgDecides(i, k) ==
    /\ IsOrgAt(i, k)
    /\ \A j \in 1..(k - 1) : IsSpace(InputLines[i][j])
    /\ Strip(OrgValue(i, k))[1] \notin {":", "-"}
    /\ ~OrgLabelEarlier(i)

\* C3 as stated: whenever the text holds "Issuing Organization: X", the
\* organization is X, whatever stands before or after, on the same line too.
C3_AnyOrganization ==
    Done => \A i \in 1..Len(InputLines) : \A k \in 1..Len(InputLines[i]) :
                IsOrgAt(i, k) => Record.organization = Some(Strip(OrgValue(i, k)))

\* C3 as amended: "Issuing Organization: X", X the rest of the line, gives
\* the organization X trimmed when only white space stands before it on its
\* line, no earlier line begins with an organization label (Issued By,
\* Issuing Organization, Organization, Procurement Entity, Issued To, in any
\* case), and X trimmed does not begin with ':' or '-'.
C3_FirstOrganizationLine ==
    Done => \A i \in 1..Len(InputLines) : \A k \in 1..Len(InputLines[i]) :
                OrgDecides(i, k) => Record.organization = Some(Strip(OrgValue(i, k)))

\* a deciding organization line that is indented or follows another line
C3_Witness ==
    /\ Done
    /\ \E i \in 1..Len(InputLines) : \E k \in 1..Len(InputLines[i]) :
          /\ OrgDecides(i, k)
          /\ i > 1 \/ k > 1
          /\ Record.organization = Some(Strip(OrgValue(i, k)))

\* C4 as stated: the closing date holds the raw date string captured after
\* the date label as a substring, whether dateutil is absent, parses the
\* string or fails on it.
C4_RawDateKept ==
    Done /\ locals.date # None =>
        /\ Record.closing_date # None
        /\ Contains(Record.closing_date[1], locals.date[1])

\* line i, stripped, is longer than 10 characters and begins in upper case
Qualifies(i) ==
    LET s == Strip(InputLines[i]) IN Len(s) > 10 /\ IsUpper(s[1])

\* C5: when no title label matched, the title is the first line whose
\* trimmed form is longer than 10 characters and begins in upper case,
\* trimmed; it is null when no line is.
C5_TitleFallback ==
    Done /\ locals.title = None =>
        IF \E i \in 1..Len(InputLines) : Qualifies(i)
        THEN \E i \in 1..Len(InputLines) :
                /\ Qualifies(i)
                /\ \A j \in 1..(i - 1) : ~Qualifies(j)
                /\ Record.title = Some(Strip(InputLines[i]))
        ELSE Record.title = None

\* the fallback passes over a line of at most 10 characters or in lower
\* case and takes a later line
C5_Witness ==
    /\ Done
    /\ locals.title = None
    /\ \E i \in 2..Len(InputLines) :
          /\ Qualifies(i)
          /\ \E j \in 1..(i - 1) : Strip(InputLines[j]) # << >> /\ ~Qualifies(j)
          /\ \A j \in 1..(i - 1) : ~Qualifies(j)
          /\ Record.title = Some(Strip(InputLines[i]))

\* YYYY-MM-DDTHH:MM:SS
IsIsoShape(s) ==
    /\ Len(s) = 19
    /\ s[5] = "-" /\ s[8] = "-" /\ s[11] = "T" /\ s[14] = ":" /\ s[17] = ":"
    /\ \A i \in (1..19) \ {5, 8, 11, 14, 17} : s[i] \in Digits

C7_PageFailuresAbsorbed ==
    pc = "except" => exc \in {Some(SetupError), Some(OpenError)}

Pages == doc[1]

\* the extraction has returned
Extracted == entry = "main" /\ pc \in {"parse", "print", "exit"} /\ exc = None

\* no call made for a page failed: get_text is called unless OCR is forced
NoPageError == \A i \in 1..Len(Pages) : ~args.ocr => Pages[i].native # None

\* the block the policy gives for a page
ExpectedBlock(page) ==
    IF ~args.ocr /\ Strip(page.native[1]) # << >> THEN page.native[1]
    ELSE IF pytesseract /\ Image THEN page.scan[args.dpi][1]
    ELSE << >>

\* C8: for a document of N pages processed without error, the extracted
\* text is the newline-join of N blocks in page order: the native text if
\* OCR is not forced and the text is not blank, else the OCR text at the
\* given dpi if pytesseract and PIL are there, else the empty string.
C8_PageBlocks ==
    Extracted /\ NoPageError =>
        /\ Len(pages_text) = Len(Pages)
        /\ \A i \in 1..Len(Pages) : pages_text[i] = ExpectedBlock(Pages[i])
        /\ text = JoinLines([i \in 1..Len(Pages) |-> ExpectedBlock(Pages[i])])
        /\ args.ocr => \A i \in 1..Len(Pages) :
                          pages_text[i] = IF pytesseract /\ Image
                                          THEN Pages[i].scan[args.dpi][1] ELSE << >>

\* a document with a page whose native text is kept and a page read by
\* OCR at 300 dpi
C8_Witness ==
    /\ Extracted
    /\ NoPageError
    /\ args.dpi = 300
    /\ \E i, j \in 1..Len(Pages) :
          /\ i < j
          /\ pages_text[i] = TypedPage.native[1]
          /\ Pages[j] = ScannedPage
          /\ pages_text[j] = ScannedPage.scan[300][1]

\* C9: a run that raised printed nothing, wrote "Error: <message>" to the
\* error stream and exits with status 1 (so without PyMuPDF); a run that did
\* not raise printed the report, plain or JSON, and exits with status 0.
C9_ExitStatus ==
    /\ pc # "exit" => stdout = << >> /\ stderr = << >> /\ status = None
    /\ pc = "exit" /\ exc # None =>
          /\ stdout = << >>
          /\ stderr = << <<"Error: ", exc[1]>> >>
          /\ status = Some(1)
    /\ pc = "exit" /\ exc = None =>
          /\ stderr = << >>
          /\ status = Some(0)
          /\ parsed # None
          /\ IF args.json
             THEN /\ Len(stdout) = 1
                  /\ stdout[1][1] = "json"
                  /\ stdout[1][2].parsed = parsed[1]
             ELSE /\ Len(stdout) = 5
                  /\ stdout[1] = <<"Analyzed: ", Path>>
                  /\ stdout[2] = <<"title: ", parsed[1].title>>
                  /\ stdout[3] = <<"reference: ", parsed[1].reference>>
                  /\ stdout[4] = <<"organization: ", parsed[1].organization>>
                  /\ stdout[5] = <<"closing_date: ", parsed[1].closing_date>>
    /\ pc = "exit" /\ ~fitz => exc = Some(SetupError)

\* the OCR engine fails on the second page, after the first was extracted
C9_Witness ==
    /\ pc = "exit"
    /\ exc = Some(OcrError)
    /\ pages_text # << >>
    /\ stdout = << >>
    /\ status = Some(1)

\* v is null, or a non-empty string without white space at either end
Clean(v) ==
    v = None \/ (v[1] # << >> /\ ~IsSpace(v[1][1]) /\ ~IsSpace(v[1][Len(v[1])]))

\* C10: title, reference and organization are each null or a non-empty
\* string without white space at either end; a matched title label gives no
\* empty title, so the fallback scan runs exactly when none matched.
C10_CleanFields ==
    Done =>
        /\ Clean(Record.title)
        /\ Clean(Record.reference)
        /\ Clean(Record.organization)
        /\ Clean(locals.title)
        /\ locals.scanned <=> locals.title = None

\* a title label matched, and the captured group began with white space
\* the separator had left
C10_Witness ==
    /\ Done
    /\ LET m == Search(RE_TITLE, FullView(text))
       IN  /\ m # None
           /\ IsSpace(FullView(text)[m[1].g[1]])
           /\ Clean(Record.title)

=============================================================================
